---- MODULE Spec2Model ----
(***************************************************************************)
(* Data-Automation-Bot front end.                                          *)
(*                                                                         *)
(* Part I   the React hook useApi (frontend/src/pages/Dashboard.tsx, and   *)
(*          its verbatim copies in the other pages): one component         *)
(*          instance, its three state cells, and the fetch attempts its    *)
(*          effect has issued.                                             *)
(* Part II  the jobs page of the static dashboard (web/static/js/main.js   *)
(*          and jobs.js): apiRequest, loadJobs, loadSchedulerStatus, the   *)
(*          auto-refresh timer and the visibilitychange listener.          *)
(***************************************************************************)
EXTENDS Integers, Sequences, FiniteSets, TLC

\* ------------------------------------------------------------------ bounds
\* Effect runs (fetch attempts) of one useApi instance.
MaxAttempts == 2
\* apiRequest calls issued by the jobs page.
MaxRequests == 4
\* setInterval calls made by the jobs page.
MaxTimers == 2
\* Polling interval, in clock ticks of the model.
IntervalTicks == 2
\* apiRequest('/config') calls made by the configuration page.
MaxCfgLoads == 2
\* Files downloaded by exportConfig.
MaxExports == 1
\* Loader calls (loadDashboardData, loadRecentActivity, updateTrendChart)
\* started on the dashboard page.
MaxLoads == 2
\* pauseResumeJob calls made on the jobs page.
MaxOps == 2
\* loadJobs calls of page load and refresh that settle while the modal is used.
MaxPageLoads == 2
\* POST /reports/generate calls made on the reports page.
MaxGenerations == 2
\* loadReports calls made on the reports page.
MaxReportLoads == 3
\* Clicks on Go to Dashboard before the wizard is left.
MaxCompletes == 2
\* fetchData and runSync calls of one useDashboard hook.
MaxCalls == 2

\* ------------------------------------------------------------- value sets
Null == "null"
\* main.js: `let autoRefreshInterval;` and `autoRefreshInterval = null`; the ids
\* setInterval returns are positive, so the empty handle is the falsy number.
NoTimer == 0
Endpoints == {"/status", "/jobs"}
DepVals == {"d1", "d2"}
Statuses == {200, 299, 500}
Payloads == {"p1", "p2"}

(***************************************************************************)
(* Part I: useApi                                                          *)
(***************************************************************************)
VARIABLES
    data,       \* useState<T | null>(null)
    loading,    \* useState(true)
    error,      \* useState<string | null>(null)
    mounted,    \* "init" (rendered, effect not yet run), "mounted", "unmounted"
    endpoint,   \* the endpoint argument of the latest render
    deps,       \* the deps argument of the latest render
    attempts    \* one record per effect run: its closure and its promise chain

hookVars == <<data, loading, error, mounted, endpoint, deps, attempts>>

\* Faulty variant: any status from 200 up counts as ok.
okNoUpperBound(status) == status >= 200
\* Response.ok: the status is in the range 200-299.
ok(status) == status >= 200 /\ status <= 299

\* The closure of a fresh effect run: cancelled = false, fetch issued.
NewAttempt(ep) ==
    [endpoint |-> ep, cancelled |-> FALSE, pc |-> "fetching", result |-> "none",
     status |-> 0, jsonCalled |-> FALSE, payload |-> Null, msg |-> Null,
     wrote |-> FALSE, doneAt |-> 0]

\* How many promise chains have settled so far (the arrival rank of the next).
NumDone(atts) == Cardinality({i \in 1..Len(atts) : atts[i].pc = "done"})

\* Faulty variant: the effect is never re-run.
DepsNeverChanged(old, new) == FALSE
\* React re-runs an effect when some element of deps differs (Object.is)
\* from the previous render's; the endpoint is not among the deps.
DepsChanged(old, new) == old # new

\* Faulty variant: the handlers do not look at cancelled.
NotCancelledUnchecked(a) == TRUE
\* The guard `if (!cancelled)` of the then/catch/finally handlers.
NotCancelled(a) == ~attempts[a].cancelled

\* Faulty variant: the cleanup does not set cancelled.
CleanupForgotten(atts) == atts
\* The cleanup function of the latest effect run: cancelled = true.
Cleanup(atts) ==
    IF Len(atts) = 0 THEN atts
    ELSE [atts EXCEPT ![Len(atts)].cancelled = TRUE]

\* The effect body: cancelled = false; setLoading(true); fetch(`/api${endpoint}`).
RunEffect(atts, ep) ==
    /\ loading' = TRUE
    /\ attempts' = Append(atts, NewAttempt(ep))

\* Faulty variant: the handler stores a field of the body (setData(j.data)),
\* which the status body does not have.
SettleOkUnwraps(a, st, j) ==
    /\ data' = IF NotCancelled(a) THEN Null ELSE data
    /\ loading' = IF NotCancelled(a) THEN FALSE ELSE loading
    /\ error' = error
    /\ attempts' = [attempts EXCEPT ![a].pc = "done", ![a].result = "ok",
                       ![a].status = st, ![a].payload = j,
                       ![a].wrote = NotCancelled(a),
                       ![a].doneAt = NumDone(attempts) + 1]
\* The promise chain of attempt a is fulfilled with j:
\* .then(j => !cancelled && setData(j)), .finally(!cancelled && setLoading(false)).
SettleOk(a, st, j) ==
    /\ data' = IF NotCancelled(a) THEN j ELSE data
    /\ loading' = IF NotCancelled(a) THEN FALSE ELSE loading
    /\ error' = error
    /\ attempts' = [attempts EXCEPT ![a].pc = "done", ![a].result = "ok",
                       ![a].status = st, ![a].payload = j,
                       ![a].wrote = NotCancelled(a),
                       ![a].doneAt = NumDone(attempts) + 1]

\* Faulty variant: a failed attempt that is still current is retried at once.
SettleErrRetries(a, st, m) ==
    /\ error' = IF NotCancelled(a) THEN m ELSE error
    /\ data' = data
    /\ IF NotCancelled(a) /\ Len(attempts) < MaxAttempts
       THEN /\ loading' = TRUE
            /\ attempts' = Append([attempts EXCEPT ![a].pc = "done",
                                      ![a].result = "err", ![a].status = st,
                                      ![a].msg = m, ![a].wrote = TRUE,
                                      ![a].doneAt = NumDone(attempts) + 1],
                                  NewAttempt(attempts[a].endpoint))
       ELSE /\ loading' = IF NotCancelled(a) THEN FALSE ELSE loading
            /\ attempts' = [attempts EXCEPT ![a].pc = "done", ![a].result = "err",
                               ![a].status = st, ![a].msg = m,
                               ![a].wrote = NotCancelled(a),
                               ![a].doneAt = NumDone(attempts) + 1]
\* Faulty variant: the catch handler also resets data to null.
SettleErrClearsData(a, st, m) ==
    /\ error' = IF NotCancelled(a) THEN m ELSE error
    /\ loading' = IF NotCancelled(a) THEN FALSE ELSE loading
    /\ data' = IF NotCancelled(a) THEN Null ELSE data
    /\ attempts' = [attempts EXCEPT ![a].pc = "done", ![a].result = "err",
                       ![a].status = st, ![a].msg = m,
                       ![a].wrote = NotCancelled(a),
                       ![a].doneAt = NumDone(attempts) + 1]
\* The promise chain of attempt a is rejected with an Error whose message is m:
\* .catch(e => !cancelled && setError(e.message)), .finally(...).
SettleErr(a, st, m) ==
    /\ error' = IF NotCancelled(a) THEN m ELSE error
    /\ loading' = IF NotCancelled(a) THEN FALSE ELSE loading
    /\ data' = data
    /\ attempts' = [attempts EXCEPT ![a].pc = "done", ![a].result = "err",
                       ![a].status = st, ![a].msg = m,
                       ![a].wrote = NotCancelled(a),
                       ![a].doneAt = NumDone(attempts) + 1]

\* First commit: the effect runs for the first time.
Mount ==
    /\ mounted = "init"
    /\ mounted' = "mounted"
    /\ RunEffect(attempts, endpoint)
    /\ UNCHANGED <<data, error, endpoint, deps>>

\* The parent re-renders the component with a new endpoint and/or new deps.
\* When the deps changed, React runs the previous cleanup and then the effect.
Rerender(ep, d) ==
    /\ mounted = "mounted"
    /\ <<ep, d>> # <<endpoint, deps>>
    /\ endpoint' = ep
    /\ deps' = d
    /\ IF DepsChanged(deps, d)
       THEN /\ Len(attempts) < MaxAttempts
            /\ RunEffect(Cleanup(attempts), ep)
       ELSE UNCHANGED <<loading, attempts>>
    /\ UNCHANGED <<data, error, mounted>>

\* fetch() resolves with a Response of status st.  Not ok: the first handler
\* throws Error(`${r.status}`) and the chain rejects; ok: r.json() is started.
FetchResolve(a, st) ==
    /\ attempts[a].pc = "fetching"
    /\ IF ok(st)
       THEN /\ attempts' = [attempts EXCEPT ![a].pc = "decoding", ![a].status = st,
                                            ![a].jsonCalled = TRUE]
            /\ UNCHANGED <<data, loading, error>>
       ELSE SettleErr(a, st, ToString(st))
    /\ UNCHANGED <<mounted, endpoint, deps>>

\* fetch() rejects: network-level failure (TypeError: Failed to fetch).
FetchReject(a) ==
    /\ attempts[a].pc = "fetching"
    /\ SettleErr(a, 0, "Failed to fetch")
    /\ UNCHANGED <<mounted, endpoint, deps>>

\* r.json() resolves with the decoded body j.
JsonResolve(a, j) ==
    /\ attempts[a].pc = "decoding"
    /\ SettleOk(a, attempts[a].status, j)
    /\ UNCHANGED <<mounted, endpoint, deps>>

\* r.json() rejects: the body is not valid JSON (SyntaxError).
JsonReject(a) ==
    /\ attempts[a].pc = "decoding"
    /\ SettleErr(a, attempts[a].status, "SyntaxError")
    /\ UNCHANGED <<mounted, endpoint, deps>>

\* The component unmounts: React runs the cleanup of the latest effect run.
Unmount ==
    /\ mounted = "mounted"
    /\ mounted' = "unmounted"
    /\ attempts' = Cleanup(attempts)
    /\ UNCHANGED <<data, loading, error, endpoint, deps>>

HookInit ==
    /\ data = Null
    /\ loading = TRUE
    /\ error = Null
    /\ mounted = "init"
    /\ endpoint \in Endpoints
    /\ deps \in DepVals
    /\ attempts = <<>>

\* The object a decoded body stands for: "p1" is a full status body, "p2" is
\* valid JSON without the fields the page reads.
StatusBody(j) ==
    IF j = "p1"
    THEN [database |-> [total_records |-> 42], scheduler |-> [running |-> TRUE]]
    ELSE [f \in {} |-> Null]

\* DashboardPage: loading ? dash : data?.database?.total_records ?? 0.
RenderedTotalRecords ==
    IF loading THEN "dash"
    ELSE IF data = Null THEN 0
    ELSE IF "database" \in DOMAIN StatusBody(data)
         THEN StatusBody(data).database.total_records
         ELSE 0

\* DashboardPage: loading ? dash : (data?.scheduler?.running ? 'Running' : 'Stopped').
RenderedScheduler ==
    IF loading THEN "dash"
    ELSE IF data = Null THEN "Stopped"
    ELSE IF "scheduler" \in DOMAIN StatusBody(data)
            /\ StatusBody(data).scheduler.running
         THEN "Running"
         ELSE "Stopped"

(***************************************************************************)
(* Part II: the jobs page (main.js, jobs.js)                               *)
(***************************************************************************)
VARIABLES
    page,                 \* "absent", "loading" (before DOMContentLoaded), "ready"
    hidden,               \* document.hidden
    autoRefreshInterval,  \* main.js: the id of the interval timer, or NoTimer
    timers,               \* the browser's active interval timers: id -> ticks left
    timerCount,           \* number of setInterval calls made so far
    requests,             \* one record per apiRequest call, in issue order
    overlayShown,         \* #loadingOverlay has class "show"
    lastToast,            \* the text of the toast shown last
    currentJobs,          \* jobs.js: let currentJobs = []
    jobsGrid,             \* what #jobsGrid displays
    jobHistory,           \* what #jobHistory displays
    schedulerShown        \* what the scheduler status card displays

jobsVars == <<page, hidden, autoRefreshInterval, timers, timerCount, requests,
              overlayShown, lastToast, currentJobs, jobsGrid, jobHistory,
              schedulerShown>>


\* apiRequest up to its first await: showLoading(), fetch() issued.
NewRequest(kind, origin) ==
    [kind |-> kind, origin |-> origin, pc |-> "fetching", result |-> "none",
     status |-> 0, jsonCalled |-> FALSE, payload |-> Null, msg |-> Null]

InFlight(kind) ==
    {i \in 1..Len(requests) : requests[i].kind = kind /\ requests[i].pc # "done"}

\* loadJobs(); loadSchedulerStatus();  -- each runs synchronously up to the
\* await of its apiRequest, so both calls are issued in the same task.
LoadJobsAndStatus(origin) ==
    /\ Len(requests) + 2 <= MaxRequests
    /\ requests' = requests \o <<NewRequest("jobs", origin),
                                 NewRequest("status", origin)>>
    /\ overlayShown' = TRUE

\* Faulty variant: every call creates a timer of its own and clears none.
StartAutoRefreshOwnTimer ==
    /\ timerCount < MaxTimers
    /\ timerCount' = timerCount + 1
    /\ autoRefreshInterval' = timerCount + 1
    /\ timers' = [id \in (DOMAIN timers) \cup {timerCount + 1}
                    |-> IF id = timerCount + 1 THEN IntervalTicks ELSE timers[id]]
\* window.startAutoRefresh: clear the timer held, then setInterval.
StartAutoRefresh ==
    /\ timerCount < MaxTimers
    /\ timerCount' = timerCount + 1
    /\ autoRefreshInterval' = timerCount + 1
    /\ timers' = [id \in ((DOMAIN timers) \ {autoRefreshInterval}) \cup {timerCount + 1}
                    |-> IF id = timerCount + 1 THEN IntervalTicks ELSE timers[id]]

\* Faulty variant: the handle is forgotten but the interval is not cleared.
StopResultKeepsTimer(handle, tms) ==
    [handle |-> NoTimer, timers |-> tms, threw |-> FALSE]
\* Faulty variant: the handle is used without the `if`, which throws on null.
StopResultThrowsOnNull(handle, tms) ==
    IF handle = NoTimer
    THEN [handle |-> handle, timers |-> tms, threw |-> TRUE]
    ELSE [handle |-> NoTimer,
          timers |-> [id \in (DOMAIN tms) \ {handle} |-> tms[id]],
          threw |-> FALSE]
\* The effect of window.stopAutoRefresh on the handle and the browser's timers:
\* if (autoRefreshInterval) { clearInterval(autoRefreshInterval); ... = null }.
StopResult(handle, tms) ==
    IF handle = NoTimer
    THEN [handle |-> handle, timers |-> tms, threw |-> FALSE]
    ELSE [handle |-> NoTimer,
          timers |-> [id \in (DOMAIN tms) \ {handle} |-> tms[id]],
          threw |-> FALSE]

\* window.stopAutoRefresh: if a timer is held, clear it and forget it.
StopAutoRefresh ==
    /\ ~StopResult(autoRefreshInterval, timers).threw
    /\ timers' = StopResult(autoRefreshInterval, timers).timers
    /\ autoRefreshInterval' = StopResult(autoRefreshInterval, timers).handle
    /\ UNCHANGED timerCount

\* jobs.js DOMContentLoaded handler: loadJobs(); loadSchedulerStatus();
\* setupAutoRefresh() -- which starts the timer and adds the visibility listener.
\* (main.js is loaded first: its own DOMContentLoaded handler has defined
\* window.startAutoRefresh and window.stopAutoRefresh by then.)
DOMContentLoaded ==
    /\ page = "loading"
    /\ page' = "ready"
    /\ LoadJobsAndStatus("init")
    /\ StartAutoRefresh
    /\ UNCHANGED <<hidden, lastToast, currentJobs, jobsGrid, jobHistory,
                   schedulerShown>>

\* Faulty variant: the callback cancels the polling once a load has failed.
TimerFireStopsAfterFailure(id) ==
    IF \E i \in 1..Len(requests) : requests[i].result = "err"
    THEN /\ timers' = [k \in (DOMAIN timers) \ {id} |-> timers[k]]
         /\ UNCHANGED <<requests, overlayShown>>
    ELSE /\ LoadJobsAndStatus("auto")
         /\ timers' = [timers EXCEPT ![id] = IntervalTicks]
\* Faulty variant: an expiry is skipped while a call is outstanding.
TimerFireSkipsWhenBusy(id) ==
    IF InFlight("jobs") # {} \/ InFlight("status") # {}
    THEN /\ timers' = [timers EXCEPT ![id] = IntervalTicks]
         /\ UNCHANGED <<requests, overlayShown>>
    ELSE /\ LoadJobsAndStatus("auto")
         /\ timers' = [timers EXCEPT ![id] = IntervalTicks]
\* The interval of timer id elapses: the callback of setupAutoRefresh runs.
TimerFire(id) ==
    /\ LoadJobsAndStatus("auto")
    /\ timers' = [timers EXCEPT ![id] = IntervalTicks]

\* One clock tick of an active interval timer.
TimerTick(id) ==
    /\ id \in DOMAIN timers
    /\ IF timers[id] > 1
       THEN /\ timers' = [timers EXCEPT ![id] = @ - 1]
            /\ UNCHANGED <<requests, overlayShown>>
       ELSE TimerFire(id)
    /\ UNCHANGED <<page, hidden, autoRefreshInterval, timerCount, lastToast,
                   currentJobs, jobsGrid, jobHistory, schedulerShown>>

\* Faulty variant: becoming visible also runs the refresh callback at once.
OnVisibilityChangeRefreshes ==
    IF hidden'
    THEN StopAutoRefresh /\ UNCHANGED <<requests, overlayShown>>
    ELSE StartAutoRefresh /\ LoadJobsAndStatus("auto")
\* The visibilitychange listener added by setupAutoRefresh.
OnVisibilityChange ==
    IF hidden'
    THEN StopAutoRefresh /\ UNCHANGED <<requests, overlayShown>>
    ELSE StartAutoRefresh /\ UNCHANGED <<requests, overlayShown>>

\* The document's visibility flips and the listener runs.
VisibilityChange ==
    /\ page = "ready"
    /\ hidden' = ~hidden
    /\ OnVisibilityChange
    /\ UNCHANGED <<page, lastToast, currentJobs, jobsGrid, jobHistory,
                   schedulerShown>>

\* window.refreshJobs: the manual refresh button.
RefreshJobs ==
    /\ page = "ready"
    /\ LoadJobsAndStatus("manual")
    /\ lastToast' = "Jobs refreshed"
    /\ UNCHANGED <<page, hidden, autoRefreshInterval, timers, timerCount,
                   currentJobs, jobsGrid, jobHistory, schedulerShown>>

\* apiRequest returns data to its caller (finally: hideLoading), and the
\* caller's try block continues: loadJobs stores and renders the jobs,
\* loadSchedulerStatus updates the status card.
RequestOk(i, st, j) ==
    /\ requests' = [requests EXCEPT ![i].pc = "done", ![i].result = "ok",
                       ![i].status = st, ![i].payload = j]
    /\ overlayShown' = FALSE
    /\ IF requests[i].kind = "jobs"
       THEN /\ currentJobs' = j
            /\ jobsGrid' = j
            /\ jobHistory' = j
            /\ UNCHANGED schedulerShown
       ELSE /\ schedulerShown' = j
            /\ UNCHANGED <<currentJobs, jobsGrid, jobHistory>>
    /\ UNCHANGED lastToast

\* apiRequest throws (catch: toast, rethrow; finally: hideLoading), and the
\* caller's catch block runs.
RequestErr(i, st, m) ==
    /\ requests' = [requests EXCEPT ![i].pc = "done", ![i].result = "err",
                       ![i].status = st, ![i].msg = m]
    /\ overlayShown' = FALSE
    /\ IF requests[i].kind = "jobs"
       THEN /\ lastToast' = "Failed to load jobs"
            /\ jobsGrid' = "failed"
       ELSE /\ lastToast' = "Failed to load scheduler status"
            /\ UNCHANGED jobsGrid
    /\ UNCHANGED <<currentJobs, jobHistory, schedulerShown>>

\* fetch() of request i resolves with a Response of status st.
ReqResolve(i, st) ==
    /\ requests[i].pc = "fetching"
    /\ IF ok(st)
       THEN /\ requests' = [requests EXCEPT ![i].pc = "decoding", ![i].status = st,
                                            ![i].jsonCalled = TRUE]
            /\ UNCHANGED <<overlayShown, lastToast, currentJobs, jobsGrid,
                           jobHistory, schedulerShown>>
       ELSE RequestErr(i, st, "HTTP " \o ToString(st))
    /\ UNCHANGED <<page, hidden, autoRefreshInterval, timers, timerCount>>

\* fetch() of request i rejects (network-level failure).
ReqReject(i) ==
    /\ requests[i].pc = "fetching"
    /\ RequestErr(i, 0, "Failed to fetch")
    /\ UNCHANGED <<page, hidden, autoRefreshInterval, timers, timerCount>>

\* response.json() of request i resolves with the decoded body j.
ReqJsonResolve(i, j) ==
    /\ requests[i].pc = "decoding"
    /\ RequestOk(i, requests[i].status, j)
    /\ UNCHANGED <<page, hidden, autoRefreshInterval, timers, timerCount>>

\* response.json() of request i rejects: the body is not valid JSON.
ReqJsonReject(i) ==
    /\ requests[i].pc = "decoding"
    /\ RequestErr(i, requests[i].status, "SyntaxError")
    /\ UNCHANGED <<page, hidden, autoRefreshInterval, timers, timerCount>>

JobsInit ==
    /\ page = "loading"
    /\ hidden \in BOOLEAN
    /\ autoRefreshInterval = NoTimer
    /\ timers = <<>>
    /\ timerCount = 0
    /\ requests = <<>>
    /\ overlayShown = FALSE
    /\ lastToast = Null
    /\ currentJobs = "empty"
    /\ jobsGrid = "initial"
    /\ jobHistory = "initial"
    /\ schedulerShown = Null

(***************************************************************************)
(* Part III: the configuration page (main.js, config.js)                   *)
(***************************************************************************)
VARIABLES
    cfgPage,        \* "absent", "loading" (script loaded), "ready"
    cfgHidden,      \* document.hidden
    cfgTimerOn,     \* main.js: autoRefreshInterval holds an active timer
    configData,     \* config.js: let configData = {}
    configShown,    \* what the .config-value elements show
    cfgRequests,    \* one record per apiRequest('/config') call
    cfgOverlay,     \* the loading overlay is visible
    cfgToast,       \* the text of the latest toast
    uptimeTimers,   \* how many setInterval(updateUptime, 60000) timers run
    exportedFiles   \* the objects written to downloaded files, in order

cfgVars == <<cfgPage, cfgHidden, cfgTimerOn, configData, configShown,
             cfgRequests, cfgOverlay, cfgToast, uptimeTimers, exportedFiles>>

\* The JavaScript object {}.
EmptyObject == [f \in {} |-> Null]

\* Decoded bodies of /config: "c1" and "c2" are full configurations, "c0" is
\* valid JSON without the sections the page reads.
ConfigBodies == {"c0", "c1", "c2"}

ConfigBody(c) ==
    IF c = "c0" THEN EmptyObject
    ELSE [api |-> [base_url |-> IF c = "c1" THEN "https://api.one" ELSE "https://api.two",
                   timeout |-> 30,
                   configured |-> (c = "c1")],
          database |-> [host |-> "localhost", port |-> 5432,
                        name |-> "automation", user |-> "bot"],
          scheduler |-> [interval |-> 3600, retry_attempts |-> 3, retry_delay |-> 60],
          reporting |-> [output_dir |-> "reports", default_format |-> "csv"]]

\* updateConfigDisplay reads configData.api.base_url first: a TypeError unless
\* the sections are there.
DisplayThrows(cd) ==
    ~({"api", "database", "scheduler", "reporting"} \subseteq DOMAIN cd)

\* loadConfiguration and updateSystemInfo up to the first await: showLoading(),
\* fetch('/config') issued; one more uptime interval is created.
LoadConfigurationAndInfo(origin) ==
    /\ Len(cfgRequests) < MaxCfgLoads
    /\ cfgRequests' = Append(cfgRequests,
                             [origin |-> origin, pc |-> "fetching", result |-> "none",
                              status |-> 0, load |-> "none"])
    /\ cfgOverlay' = TRUE
    /\ uptimeTimers' = uptimeTimers + 1

\* DOMContentLoaded: loadConfiguration(); updateSystemInfo(); setupAutoRefresh().
CfgDOMContentLoaded ==
    /\ cfgPage = "loading"
    /\ cfgPage' = "ready"
    /\ LoadConfigurationAndInfo("init")
    /\ cfgTimerOn' = TRUE
    /\ UNCHANGED <<cfgHidden, configData, configShown, cfgToast, exportedFiles>>

\* The auto-refresh interval (120000 ms) elapses.
CfgTimerFire ==
    /\ cfgPage = "ready" /\ cfgTimerOn
    /\ LoadConfigurationAndInfo("auto")
    /\ UNCHANGED <<cfgPage, cfgHidden, cfgTimerOn, configData, configShown,
                   cfgToast, exportedFiles>>

\* visibilitychange: hidden stops the auto-refresh, visible starts it.
CfgVisibilityChange ==
    /\ cfgPage = "ready"
    /\ cfgHidden' = ~cfgHidden
    /\ cfgTimerOn' = cfgHidden
    /\ UNCHANGED <<cfgPage, configData, configShown, cfgRequests, cfgOverlay,
                   cfgToast, uptimeTimers, exportedFiles>>

\* window.refreshConfig: the manual refresh button.
RefreshConfig ==
    /\ cfgPage = "ready"
    /\ LoadConfigurationAndInfo("manual")
    /\ cfgToast' = "Configuration refreshed"
    /\ UNCHANGED <<cfgPage, cfgHidden, cfgTimerOn, configData, configShown,
                   exportedFiles>>

\* Faulty variant: the catch block also forgets the stored configuration.
CfgLoadFailedClearsData(i, st) ==
    /\ cfgRequests' = [cfgRequests EXCEPT ![i].pc = "done", ![i].result = "err",
                          ![i].status = st, ![i].load = "failed"]
    /\ cfgOverlay' = FALSE
    /\ cfgToast' = "Failed to load configuration"
    /\ configShown' = "Failed to load"
    /\ configData' = EmptyObject
\* apiRequest throws (catch: toast, rethrow; finally: hideLoading) and the
\* catch block of loadConfiguration runs: toast, showConfigError().
CfgLoadFailed(i, st) ==
    /\ cfgRequests' = [cfgRequests EXCEPT ![i].pc = "done", ![i].result = "err",
                          ![i].status = st, ![i].load = "failed"]
    /\ cfgOverlay' = FALSE
    /\ cfgToast' = "Failed to load configuration"
    /\ configShown' = "Failed to load"
    /\ configData' = configData

\* fetch() of request i resolves with a Response of status st.
CfgResolve(i, st) ==
    /\ cfgRequests[i].pc = "fetching"
    /\ IF ok(st)
       THEN /\ cfgRequests' = [cfgRequests EXCEPT ![i].pc = "decoding",
                                                  ![i].status = st]
            /\ UNCHANGED <<cfgOverlay, cfgToast, configShown, configData>>
       ELSE CfgLoadFailed(i, st)
    /\ UNCHANGED <<cfgPage, cfgHidden, cfgTimerOn, uptimeTimers, exportedFiles>>

\* fetch() of request i rejects (network-level failure).
CfgReject(i) ==
    /\ cfgRequests[i].pc = "fetching"
    /\ CfgLoadFailed(i, 0)
    /\ UNCHANGED <<cfgPage, cfgHidden, cfgTimerOn, uptimeTimers, exportedFiles>>

\* response.json() resolves with body c: apiRequest returns it (finally:
\* hideLoading), configData = config, updateConfigDisplay(); when that throws,
\* the catch block runs with configData already replaced.
CfgJsonResolve(i, c) ==
    /\ cfgRequests[i].pc = "decoding"
    /\ cfgOverlay' = FALSE
    /\ configData' = ConfigBody(c)
    /\ IF DisplayThrows(ConfigBody(c))
       THEN /\ cfgToast' = "Failed to load configuration"
            /\ configShown' = "Failed to load"
            /\ cfgRequests' = [cfgRequests EXCEPT ![i].pc = "done",
                                  ![i].result = "ok", ![i].load = "failed"]
       ELSE /\ configShown' = c
            /\ cfgRequests' = [cfgRequests EXCEPT ![i].pc = "done",
                                  ![i].result = "ok", ![i].load = "ok"]
            /\ UNCHANGED cfgToast
    /\ UNCHANGED <<cfgPage, cfgHidden, cfgTimerOn, uptimeTimers, exportedFiles>>

\* response.json() rejects: the body is not valid JSON.
CfgJsonReject(i) ==
    /\ cfgRequests[i].pc = "decoding"
    /\ CfgLoadFailed(i, cfgRequests[i].status)
    /\ UNCHANGED <<cfgPage, cfgHidden, cfgTimerOn, uptimeTimers, exportedFiles>>

\* exportData = {...configData, api: {...configData.api,
\*                                    configured: configData.api.configured}}.
ExportData(cd) ==
    [k \in DOMAIN cd |->
        IF k = "api"
        THEN [f \in (DOMAIN cd.api) \cup {"configured"} |->
                 IF f = "configured" THEN cd.api.configured ELSE cd.api[f]]
        ELSE cd[k]]

\* window.exportConfig: warn when nothing is loaded, else download exportData.
ExportConfig ==
    /\ cfgPage = "ready"
    /\ IF DOMAIN configData = {}
       THEN /\ cfgToast' = "No configuration data to export"
            /\ UNCHANGED exportedFiles
       ELSE IF "api" \notin DOMAIN configData
       THEN /\ cfgToast' = "Failed to export configuration"
            /\ UNCHANGED exportedFiles
       ELSE /\ Len(exportedFiles) < MaxExports
            /\ exportedFiles' = Append(exportedFiles, ExportData(configData))
            /\ cfgToast' = "Configuration exported successfully"
    /\ UNCHANGED <<cfgPage, cfgHidden, cfgTimerOn, configData, configShown,
                   cfgRequests, cfgOverlay, uptimeTimers>>

CfgInit ==
    /\ cfgPage = "loading"
    /\ cfgHidden \in BOOLEAN
    /\ cfgTimerOn = FALSE
    /\ configData = EmptyObject
    /\ configShown = "initial"
    /\ cfgRequests = <<>>
    /\ cfgOverlay = FALSE
    /\ cfgToast = Null
    /\ uptimeTimers = 0
    /\ exportedFiles = <<>>

(***************************************************************************)
(* Part IV: the dashboard page (main.js, dashboard.js)                     *)
(* apiRequest is modelled in Part II; here a call of it is one step that   *)
(* either returns the decoded body ("ok") or throws ("err").               *)
(***************************************************************************)
VARIABLES
    dashPage,       \* "absent", "loading" (script loaded), "ready"
    dashHidden,     \* document.hidden
    dashTimerOn,    \* main.js: autoRefreshInterval holds an active timer
    trendChart,     \* dashboard.js: the Chart object exists (let trendChart = null)
    loads,          \* one record per running or finished loader call
    statusCards,    \* what the status cards show
    activityList,   \* what the activity list shows
    chartShown,     \* what the trend chart shows
    reportsCount,   \* what the reports counter shows
    lastUpdated,    \* dashboardData.lastUpdated is set
    dashOverlay,    \* the loading overlay is visible
    dashToast       \* the text of the latest toast

dashVars == <<dashPage, dashHidden, dashTimerOn, trendChart, loads, statusCards,
              activityList, chartShown, reportsCount, lastUpdated, dashOverlay,
              dashToast>>

Outcomes == {"ok", "err"}

\* A loader call that has reached its first apiRequest.  origin "init" and
\* "auto" are loadDashboardData; "activity" is a lone loadRecentActivity and
\* "chart" a lone updateTrendChart.  sections lists the section loads started;
\* d and j are the two requests of loadRecentActivity.
NewLoad(origin) ==
    [origin |-> origin,
     pc |-> IF origin \in {"init", "auto"} THEN "status" ELSE origin,
     sections |-> IF origin \in {"init", "auto"} THEN <<"status">> ELSE <<origin>>,
     d |-> IF origin = "activity" THEN "pending" ELSE "none",
     j |-> IF origin = "activity" THEN "pending" ELSE "none",
     aborted |-> FALSE]

StartLoad(origin) ==
    /\ Len(loads) < MaxLoads
    /\ loads' = Append(loads, NewLoad(origin))
    /\ dashOverlay' = TRUE

\* apiRequest's catch (toast) and finally (hideLoading) for one request.
ToastAfter(out) == IF out = "err" THEN "Request failed" ELSE dashToast

\* DOMContentLoaded: loadDashboardData(); setupCharts(); setupAutoRefresh().
DashDOMContentLoaded ==
    /\ dashPage = "loading"
    /\ dashPage' = "ready"
    /\ StartLoad("init")
    /\ trendChart' = TRUE
    /\ dashTimerOn' = TRUE
    /\ UNCHANGED <<dashHidden, statusCards, activityList, chartShown,
                   reportsCount, lastUpdated, dashToast>>

\* The auto-refresh interval (30000 ms) elapses: loadDashboardData().
DashTimerFire ==
    /\ dashPage = "ready" /\ dashTimerOn
    /\ StartLoad("auto")
    /\ UNCHANGED <<dashPage, dashHidden, dashTimerOn, trendChart, statusCards,
                   activityList, chartShown, reportsCount, lastUpdated, dashToast>>

\* visibilitychange: hidden stops the auto-refresh, visible starts it.
DashVisibilityChange ==
    /\ dashPage = "ready"
    /\ dashHidden' = ~dashHidden
    /\ dashTimerOn' = dashHidden
    /\ UNCHANGED <<dashPage, trendChart, loads, statusCards, activityList,
                   chartShown, reportsCount, lastUpdated, dashOverlay, dashToast>>

\* window.refreshActivity: loadRecentActivity(); toast.
RefreshActivity ==
    /\ dashPage = "ready"
    /\ StartLoad("activity")
    /\ dashToast' = "Activity refreshed"
    /\ UNCHANGED <<dashPage, dashHidden, dashTimerOn, trendChart, statusCards,
                   activityList, chartShown, reportsCount, lastUpdated>>

\* The period selector changes: updateTrendChart(this.value).
ChangePeriod ==
    /\ dashPage = "ready" /\ trendChart
    /\ StartLoad("chart")
    /\ UNCHANGED <<dashPage, dashHidden, dashTimerOn, trendChart, statusCards,
                   activityList, chartShown, reportsCount, lastUpdated, dashToast>>

\* apiRequest('/status') of load r settles.  ok: updateStatusCards(status),
\* then loadRecentActivity() issues its two requests.  err: the catch block of
\* loadDashboardData runs and the function ends.
StatusSettles(r, out) ==
    /\ loads[r].pc = "status"
    /\ IF out = "ok"
       THEN /\ statusCards' = "loaded"
            /\ loads' = [loads EXCEPT ![r].pc = "activity",
                            ![r].sections = Append(@, "activity"),
                            ![r].d = "pending", ![r].j = "pending"]
            /\ dashOverlay' = TRUE
            /\ UNCHANGED dashToast
       ELSE /\ loads' = [loads EXCEPT ![r].pc = "done", ![r].aborted = TRUE]
            /\ dashOverlay' = FALSE
            /\ dashToast' = "Failed to load dashboard data"
            /\ UNCHANGED statusCards
    /\ UNCHANGED <<dashPage, dashHidden, dashTimerOn, trendChart, activityList,
                   chartShown, reportsCount, lastUpdated>>

\* What follows loadRecentActivity in load l: for loadDashboardData,
\* updateTrendChart() (which returns at once without a chart), else the end.
AfterActivity(l) ==
    IF l.origin = "activity" THEN [l EXCEPT !.pc = "done"]
    ELSE IF trendChart
         THEN [l EXCEPT !.pc = "chart", !.sections = Append(@, "chart")]
         ELSE [l EXCEPT !.pc = "reports", !.sections = Append(@, "reports")]

\* One of the two requests of loadRecentActivity settles (w is "d" for
\* /data?limit=5, "j" for /jobs).  Promise.all rejects with the first failure
\* and fulfils when both are fulfilled; the catch block of loadRecentActivity
\* shows "Unable to load recent activity".
ActivitySettles(r, w, out) ==
    /\ loads[r][w] = "pending"
    /\ dashToast' = ToastAfter(out)
    /\ LET l == [loads[r] EXCEPT ![w] = out]
           other == IF w = "d" THEN loads[r].j ELSE loads[r].d
       IN  IF loads[r].pc # "activity"
           THEN /\ loads' = [loads EXCEPT ![r] = l]
                /\ dashOverlay' = FALSE
                /\ UNCHANGED activityList
           ELSE IF out = "err"
           THEN /\ activityList' = "unable"
                /\ loads' = [loads EXCEPT ![r] = AfterActivity(l)]
                /\ dashOverlay' = (AfterActivity(l).pc # "done")
           ELSE IF other = "ok"
           THEN /\ activityList' = "loaded"
                /\ loads' = [loads EXCEPT ![r] = AfterActivity(l)]
                /\ dashOverlay' = (AfterActivity(l).pc # "done")
           ELSE /\ loads' = [loads EXCEPT ![r] = l]
                /\ dashOverlay' = FALSE
                /\ UNCHANGED activityList
    /\ UNCHANGED <<dashPage, dashHidden, dashTimerOn, trendChart, statusCards,
                   chartShown, reportsCount, lastUpdated>>

\* The request of updateTrendChart settles; its catch block only logs.  In
\* loadDashboardData, loadReportsCount() follows.
ChartSettles(r, out) ==
    /\ loads[r].pc = "chart"
    /\ dashToast' = ToastAfter(out)
    /\ chartShown' = IF out = "ok" THEN "loaded" ELSE chartShown
    /\ IF loads[r].origin = "chart"
       THEN /\ loads' = [loads EXCEPT ![r].pc = "done"]
            /\ dashOverlay' = FALSE
       ELSE /\ loads' = [loads EXCEPT ![r].pc = "reports",
                            ![r].sections = Append(@, "reports")]
            /\ dashOverlay' = TRUE
    /\ UNCHANGED <<dashPage, dashHidden, dashTimerOn, trendChart, statusCards,
                   activityList, reportsCount, lastUpdated>>

\* The request of loadReportsCount settles; its catch block only logs.  Then
\* loadDashboardData sets dashboardData.lastUpdated and ends.
ReportsSettles(r, out) ==
    /\ loads[r].pc = "reports"
    /\ dashToast' = ToastAfter(out)
    /\ reportsCount' = IF out = "ok" THEN "loaded" ELSE reportsCount
    /\ loads' = [loads EXCEPT ![r].pc = "done"]
    /\ lastUpdated' = TRUE
    /\ dashOverlay' = FALSE
    /\ UNCHANGED <<dashPage, dashHidden, dashTimerOn, trendChart, statusCards,
                   activityList, chartShown>>

DashInit ==
    /\ dashPage = "loading"
    /\ dashHidden \in BOOLEAN
    /\ dashTimerOn = FALSE
    /\ trendChart = FALSE
    /\ loads = <<>>
    /\ statusCards = "initial"
    /\ activityList = "initial"
    /\ chartShown = "initial"
    /\ reportsCount = "initial"
    /\ lastUpdated = FALSE
    /\ dashOverlay = FALSE
    /\ dashToast = Null

(***************************************************************************)
(* Part V: the job modal and pause / resume on the jobs page (jobs.js)     *)
(* The page loads and the timer are modelled in Part II; here an           *)
(* apiRequest call is one step that returns ("ok") or throws ("err"), and  *)
(* the loadJobs calls of page load and refresh appear as PageLoadSettles.  *)
(***************************************************************************)
VARIABLES
    modalPage,      \* "absent", "ready"
    jobList,        \* jobs.js: currentJobs, as the set of the job ids
    gridJobs,       \* the job cards the grid shows
    selectedJobId,  \* jobs.js: let selectedJobId = null
    modalShown,     \* the modal has the class "show"
    buttonShown,    \* which of pauseJobBtn / resumeJobBtn is displayed
    ops,            \* one record per pauseResumeJob call
    modalToast,     \* the text of the latest toast
    pageLoads       \* loadJobs calls of page load and refresh that settled

modalVars == <<modalPage, jobList, gridJobs, selectedJobId, modalShown,
               buttonShown, ops, modalToast, pageLoads>>

JobIds == {"j1", "j2"}

\* The job lists a /jobs response can carry.
JobLists == {{"j1", "j2"}, {"j2"}, {}}

\* loadJobs settles.  ok: currentJobs = response.jobs; renderJobs();
\* err: toast and the failure placeholder replaces the grid.
LoadJobsSettles(out, list) ==
    IF out = "ok"
    THEN /\ jobList' = list
         /\ gridJobs' = list
         /\ UNCHANGED modalToast
    ELSE /\ gridJobs' = {}
         /\ modalToast' = "Failed to load jobs"
         /\ UNCHANGED jobList

\* A loadJobs call of the page load, the timer or the refresh button settles.
PageLoadSettles(out, list) ==
    /\ modalPage = "ready"
    /\ pageLoads < MaxPageLoads
    /\ pageLoads' = pageLoads + 1
    /\ LoadJobsSettles(out, list)
    /\ UNCHANGED <<modalPage, selectedJobId, modalShown, buttonShown, ops>>

\* showJobDetails(jobId), the Details button of a job card: return when the
\* job is not in currentJobs; else select it, show Pause, open the modal.
ShowJobDetails(jobId) ==
    /\ modalPage = "ready" /\ ~modalShown
    /\ jobId \in gridJobs
    /\ IF jobId \notin jobList
       THEN UNCHANGED <<selectedJobId, buttonShown, modalShown>>
       ELSE /\ selectedJobId' = jobId
            /\ buttonShown' = "pause"
            /\ modalShown' = TRUE
    /\ UNCHANGED <<modalPage, jobList, gridJobs, ops, modalToast, pageLoads>>

\* closeJobModal: hide the modal, selectedJobId = null.
CloseJobModal ==
    /\ modalPage = "ready" /\ modalShown
    /\ modalShown' = FALSE
    /\ selectedJobId' = Null
    /\ UNCHANGED <<modalPage, jobList, gridJobs, buttonShown, ops, modalToast,
                   pageLoads>>

\* pauseResumeJob(jobId, action) up to its first await: the POST is issued.
PauseResumeJob(jobId, action) ==
    /\ Len(ops) < MaxOps
    /\ ops' = Append(ops, [jobId |-> jobId, action |-> action, pc |-> "posting",
                           result |-> "none", switched |-> FALSE])

\* pauseJobInline(jobId): the Pause button of a job card.
PauseJobInline(jobId) ==
    /\ modalPage = "ready" /\ ~modalShown
    /\ jobId \in gridJobs
    /\ PauseResumeJob(jobId, "pause")
    /\ UNCHANGED <<modalPage, jobList, gridJobs, selectedJobId, modalShown,
                   buttonShown, modalToast, pageLoads>>

\* pauseJob / resumeJob: the button the modal displays is clicked.
\* if (!selectedJobId) return.
ModalButton ==
    /\ modalPage = "ready" /\ modalShown
    /\ IF selectedJobId = Null
       THEN UNCHANGED ops
       ELSE PauseResumeJob(selectedJobId, buttonShown)
    /\ UNCHANGED <<modalPage, jobList, gridJobs, selectedJobId, modalShown,
                   buttonShown, modalToast, pageLoads>>

\* The POST of call o settles.  ok: toast of response.message, loadJobs() is
\* issued.  err: the catch block shows `Failed to ${action} job`.
PostSettles(o, out) ==
    /\ ops[o].pc = "posting"
    /\ IF out = "ok"
       THEN /\ ops' = [ops EXCEPT ![o].pc = "reloading", ![o].result = "ok"]
            /\ modalToast' = "response.message"
       ELSE /\ ops' = [ops EXCEPT ![o].pc = "done", ![o].result = "err"]
            /\ modalToast' = "Failed to " \o ops[o].action \o " job"
    /\ UNCHANGED <<modalPage, jobList, gridJobs, selectedJobId, modalShown,
                   buttonShown, pageLoads>>

\* Faulty variant: the buttons are switched without looking at selectedJobId.
SwitchesIgnoringSelection(o) == TRUE
\* The guard `if (selectedJobId === jobId)` after the reload.
Switches(o) == selectedJobId = ops[o].jobId

\* The loadJobs of call o settles (it catches its own error), and the rest of
\* pauseResumeJob runs: the modal buttons are switched if the modal still
\* shows the job.
ReloadSettles(o, out, list) ==
    /\ ops[o].pc = "reloading"
    /\ LoadJobsSettles(out, list)
    /\ ops' = [ops EXCEPT ![o].pc = "done", ![o].switched = Switches(o)]
    /\ buttonShown' = IF Switches(o)
                      THEN (IF ops[o].action = "pause" THEN "resume" ELSE "pause")
                      ELSE buttonShown
    /\ UNCHANGED <<modalPage, selectedJobId, modalShown, pageLoads>>

ModalInit ==
    /\ modalPage = "ready"
    /\ jobList = {}
    /\ gridJobs = {}
    /\ selectedJobId = Null
    /\ modalShown = FALSE
    /\ buttonShown = "pause"
    /\ ops = <<>>
    /\ modalToast = Null
    /\ pageLoads = 0

(***************************************************************************)
(* Part VI: the reports page (main.js, reports script)                     *)
(* An apiRequest call is one step that returns ("ok") or throws ("err").   *)
(***************************************************************************)
VARIABLES
    repPage,          \* "absent", "loading" (script loaded), "ready"
    formType,         \* the value of the form's type field
    formDataType,     \* the value of the form's data_type field
    dataTypeRequired, \* dataTypeInput.required
    submitDisabled,   \* submitBtn.disabled
    generations,      \* one record per POST /reports/generate
    reloadTimers,     \* pending setTimeout(loadReports, 1000) calls
    loadsInFlight,    \* loadReports calls that have not settled
    loadsIssued,      \* loadReports calls made so far
    reportsGrid,      \* what the reports grid shows
    repToast          \* the text of the latest toast

repVars == <<repPage, formType, formDataType, dataTypeRequired, submitDisabled,
             generations, reloadTimers, loadsInFlight, loadsIssued, reportsGrid,
             repToast>>

ReportTypes == {"summary", "trend"}
DataTypes == {"", "sales"}

\* loadReports up to its await: apiRequest('/reports') issued.
LoadReports ==
    /\ loadsIssued < MaxReportLoads
    /\ loadsIssued' = loadsIssued + 1
    /\ loadsInFlight' = loadsInFlight + 1

\* DOMContentLoaded: setupReportForm(); loadReports(); the listeners are
\* added; handleReportTypeChange().
RepDOMContentLoaded ==
    /\ repPage = "loading"
    /\ repPage' = "ready"
    /\ LoadReports
    /\ dataTypeRequired' = (formType = "trend")
    /\ UNCHANGED <<formType, formDataType, submitDisabled, generations,
                   reloadTimers, reportsGrid, repToast>>

\* The user picks a report type: handleReportTypeChange().
SetReportType(t) ==
    /\ repPage = "ready"
    /\ t # formType
    /\ formType' = t
    /\ dataTypeRequired' = (t = "trend")
    /\ UNCHANGED <<repPage, formDataType, submitDisabled, generations,
                   reloadTimers, loadsInFlight, loadsIssued, reportsGrid, repToast>>

\* The user edits the data type field.
SetDataType(d) ==
    /\ repPage = "ready"
    /\ d # formDataType
    /\ formDataType' = d
    /\ UNCHANGED <<repPage, formType, dataTypeRequired, submitDisabled,
                   generations, reloadTimers, loadsInFlight, loadsIssued,
                   reportsGrid, repToast>>

\* The form is submitted (the browser submits only through an enabled submit
\* button and with the required fields filled): handleReportGeneration up to
\* its await.
SubmitReport ==
    /\ repPage = "ready"
    /\ ~submitDisabled
    /\ ~(dataTypeRequired /\ formDataType = "")
    /\ IF formType = "trend" /\ formDataType = ""
       THEN /\ repToast' = "Data type is required for trend reports"
            /\ UNCHANGED <<submitDisabled, generations>>
       ELSE /\ Len(generations) < MaxGenerations
            /\ submitDisabled' = TRUE
            /\ generations' = Append(generations,
                                     [type |-> formType, pc |-> "posting",
                                      result |-> "none",
                                      disabledAtSend |-> submitDisabled'])
            /\ UNCHANGED repToast
    /\ UNCHANGED <<repPage, formType, formDataType, dataTypeRequired,
                   reloadTimers, loadsInFlight, loadsIssued, reportsGrid>>

\* Faulty variant: the button is restored at the end of the try block instead
\* of in finally.
GenerationSettlesNoFinally(i, out) ==
    /\ generations[i].pc = "posting"
    /\ generations' = [generations EXCEPT ![i].pc = "done", ![i].result = out]
    /\ IF out = "ok"
       THEN /\ repToast' = "Report generated successfully!"
            /\ reloadTimers' = reloadTimers + 1
            /\ formType' = "summary"
            /\ formDataType' = ""
            /\ dataTypeRequired' = FALSE
            /\ submitDisabled' = FALSE
       ELSE /\ repToast' = "Failed to generate report"
            /\ UNCHANGED <<reloadTimers, formType, formDataType,
                           dataTypeRequired, submitDisabled>>
    /\ UNCHANGED <<repPage, loadsInFlight, loadsIssued, reportsGrid>>
\* The POST of generation i settles.  ok: toast, setTimeout(loadReports, 1000),
\* form.reset(), handleReportTypeChange().  err: toast.  finally: the button
\* is enabled again.
GenerationSettles(i, out) ==
    /\ generations[i].pc = "posting"
    /\ generations' = [generations EXCEPT ![i].pc = "done", ![i].result = out]
    /\ IF out = "ok"
       THEN /\ repToast' = "Report generated successfully!"
            /\ reloadTimers' = reloadTimers + 1
            /\ formType' = "summary"
            /\ formDataType' = ""
            /\ dataTypeRequired' = FALSE
       ELSE /\ repToast' = "Failed to generate report"
            /\ UNCHANGED <<reloadTimers, formType, formDataType, dataTypeRequired>>
    /\ submitDisabled' = FALSE
    /\ UNCHANGED <<repPage, loadsInFlight, loadsIssued, reportsGrid>>

\* A setTimeout(loadReports, 1000) expires.
ReloadTimerFires ==
    /\ reloadTimers > 0
    /\ reloadTimers' = reloadTimers - 1
    /\ LoadReports
    /\ UNCHANGED <<repPage, formType, formDataType, dataTypeRequired,
                   submitDisabled, generations, reportsGrid, repToast>>

\* window.refreshReports: loadReports(); toast.
RefreshReports ==
    /\ repPage = "ready"
    /\ LoadReports
    /\ repToast' = "Reports refreshed"
    /\ UNCHANGED <<repPage, formType, formDataType, dataTypeRequired,
                   submitDisabled, generations, reloadTimers, reportsGrid>>

\* A loadReports call settles: renderReports(), or toast and placeholder.
ReportsLoadSettles(out) ==
    /\ loadsInFlight > 0
    /\ loadsInFlight' = loadsInFlight - 1
    /\ IF out = "ok"
       THEN reportsGrid' = "rendered" /\ UNCHANGED repToast
       ELSE reportsGrid' = "failed" /\ repToast' = "Failed to load reports"
    /\ UNCHANGED <<repPage, formType, formDataType, dataTypeRequired,
                   submitDisabled, generations, reloadTimers, loadsIssued>>

RepInit ==
    /\ repPage = "loading"
    /\ formType = "summary"
    /\ formDataType = ""
    /\ dataTypeRequired = FALSE
    /\ submitDisabled = FALSE
    /\ generations = <<>>
    /\ reloadTimers = 0
    /\ loadsInFlight = 0
    /\ loadsIssued = 0
    /\ reportsGrid = "initial"
    /\ repToast = Null

(***************************************************************************)
(* Part VII: the onboarding wizard (Onboarding component)                  *)
(* React re-renders after every click, so a handler sees the state of the  *)
(* latest render.                                                          *)
(***************************************************************************)
VARIABLES
    wizard,             \* "absent", "shown", "left" (navigated to "/")
    currentStep,        \* useState(1)
    selectedPlatforms,  \* useState([]): the list of the selected ids
    wizToast,           \* the welcome toast has been shown
    navTimers           \* pending setTimeout(navigate('/'), 1500) calls

wizVars == <<wizard, currentStep, selectedPlatforms, wizToast, navTimers>>

PlatformIds == {"shopify", "amazon", "ebay", "woocommerce"}

Includes(list, id) == \E k \in 1..Len(list) : list[k] = id

\* Faulty variant: the id is appended without looking whether it is selected.
togglePlatformAppends(prev, platformId) == Append(prev, platformId)
\* togglePlatform: prev.includes(id) ? prev.filter(x => x !== id) : [...prev, id].
togglePlatform(prev, platformId) ==
    IF Includes(prev, platformId)
    THEN SelectSeq(prev, LAMBDA id : id # platformId)
    ELSE Append(prev, platformId)

\* Faulty variant: the step is increased without the bound.
nextStepUnbounded(step) == step + 1
\* nextStep: if (currentStep < 3) setCurrentStep(prev => prev + 1).
nextStep(step) == IF step < 3 THEN step + 1 ELSE step

\* prevStep: if (currentStep > 1) setCurrentStep(prev => prev - 1).
prevStep(step) == IF step > 1 THEN step - 1 ELSE step

\* Faulty variant: Continue is enabled also with nothing selected.
ContinueAlwaysEnabled == TRUE
\* PlatformSelectionStep: disabled={selectedPlatforms.length === 0}.
ContinueEnabled == Len(selectedPlatforms) # 0

\* A click on the button wired to onNext: Get Started of step 1, Continue of
\* step 2 when it is enabled.
ClickNext ==
    /\ wizard = "shown"
    /\ \/ currentStep = 1
       \/ currentStep = 2 /\ ContinueEnabled
    /\ currentStep' = nextStep(currentStep)
    /\ UNCHANGED <<wizard, selectedPlatforms, wizToast, navTimers>>

\* A click on Back (steps 2 and 3), wired to onPrev.
ClickBack ==
    /\ wizard = "shown"
    /\ currentStep \in {2, 3}
    /\ currentStep' = prevStep(currentStep)
    /\ UNCHANGED <<wizard, selectedPlatforms, wizToast, navTimers>>

\* A click on a platform card of step 2.
ClickPlatform(platformId) ==
    /\ wizard = "shown"
    /\ currentStep = 2
    /\ selectedPlatforms' = togglePlatform(selectedPlatforms, platformId)
    /\ UNCHANGED <<wizard, currentStep, wizToast, navTimers>>

\* A click on Go to Dashboard (step 3): completeTrial.
ClickComplete ==
    /\ wizard = "shown"
    /\ currentStep = 3
    /\ navTimers < MaxCompletes
    /\ wizToast' = TRUE
    /\ navTimers' = navTimers + 1
    /\ UNCHANGED <<wizard, currentStep, selectedPlatforms>>

\* A navigation timer expires: navigate('/') unmounts the wizard.
NavigateFires ==
    /\ navTimers > 0
    /\ navTimers' = navTimers - 1
    /\ wizard' = "left"
    /\ UNCHANGED <<currentStep, selectedPlatforms, wizToast>>

WizInit ==
    /\ wizard = "shown"
    /\ currentStep = 1
    /\ selectedPlatforms = <<>>
    /\ wizToast = FALSE
    /\ navTimers = 0

(***************************************************************************)
(* Part VIII: the useDashboard hook (hooks/useDashboard.js)                *)
(***************************************************************************)
VARIABLES
    udMounted,      \* "absent", "init" (rendered, effect not yet run),
                    \* "mounted", "unmounted"
    dashboardData,  \* useState({status: null, revenue: null, discrepancies: null})
    udLoading,      \* the hook's loading: useState(true)
    udError,        \* the hook's error: useState(null)
    calls,          \* one record per fetchData or runSync call
    udToast         \* the text of the latest toast

udVars == <<udMounted, dashboardData, udLoading, udError, calls, udToast>>

Resources == {"status", "revenue", "discrepancies"}

NoData == [w \in Resources |-> Null]

\* The data the three responses of call c carry.
DataOf(c) == [w \in Resources |-> "data" \o ToString(c)]

\* React drops a state update of an unmounted component.
SetState(new, old) == IF udMounted = "mounted" \/ udMounted = "init" THEN new ELSE old

\* fetchData up to its await: setLoading(true), setError(null), three GETs.
\* origin is "mount" (the effect), "refresh" (refreshData) or "sync" (runSync).
NewCall(origin, pc) ==
    [origin |-> origin, pc |-> pc,
     req |-> [w \in Resources |-> IF pc = "fetching" THEN "pending" ELSE "none"],
     result |-> "none", promiseToast |-> Null]

StartFetch(origin) ==
    /\ Len(calls) < MaxCalls
    /\ calls' = Append(calls, NewCall(origin, "fetching"))
    /\ udLoading' = TRUE
    /\ udError' = Null

\* useEffect(() => { fetchData() }, []).
UdMount ==
    /\ udMounted = "init"
    /\ udMounted' = "mounted"
    /\ StartFetch("mount")
    /\ UNCHANGED <<dashboardData, udToast>>

\* refreshData: toast.promise(fetchData(), {loading, success, error}).
RefreshData ==
    /\ udMounted = "mounted"
    /\ Len(calls) < MaxCalls
    /\ calls' = Append(calls, [NewCall("refresh", "fetching")
                                  EXCEPT !.promiseToast = "Refreshing dashboard data..."])
    /\ udLoading' = TRUE
    /\ udError' = Null
    /\ udToast' = "Refreshing dashboard data..."
    /\ UNCHANGED <<udMounted, dashboardData>>

\* runSync up to its await: the POST is issued.
RunSync ==
    /\ udMounted = "mounted"
    /\ Len(calls) < MaxCalls
    /\ calls' = Append(calls, NewCall("sync", "posting"))
    /\ UNCHANGED <<udMounted, dashboardData, udLoading, udError, udToast>>

\* The POST of runSync settles.  ok: toast, fetchData().  err: toast, rethrow.
SyncSettles(c, out) ==
    /\ calls[c].pc = "posting"
    /\ IF out = "ok"
       THEN /\ calls' = [calls EXCEPT ![c].pc = "fetching",
                            ![c].req = [w \in Resources |-> "pending"]]
            /\ udToast' = "Sync completed successfully!"
            /\ udLoading' = SetState(TRUE, udLoading)
            /\ udError' = SetState(Null, udError)
       ELSE /\ calls' = [calls EXCEPT ![c].pc = "done", ![c].result = "err"]
            /\ udToast' = "Sync failed. Please try again."
            /\ UNCHANGED <<udLoading, udError>>
    /\ UNCHANGED <<udMounted, dashboardData>>

\* What toast.promise shows when the promise of fetchData settles.  fetchData
\* catches its own error, so its promise is always fulfilled.
PromiseToastAfter(c, out) ==
    IF calls[c].origin = "refresh" THEN "Dashboard updated!" ELSE calls[c].promiseToast

\* Faulty variant: the data is taken as soon as one response is there.
AllFulfilledRace(req) == \E w \in Resources : req[w] = "ok"
\* Promise.all fulfils when every request is fulfilled.
AllFulfilled(req) == \A w \in Resources : req[w] = "ok"

\* Request w of call c is fulfilled; when it was the last one, setDashboardData
\* with the three bodies, finally setLoading(false).
RequestFulfils(c, w) ==
    /\ calls[c].pc = "fetching"
    /\ calls[c].req[w] = "pending"
    /\ LET req == [calls[c].req EXCEPT ![w] = "ok"]
       IN  IF AllFulfilled(req)
           THEN /\ dashboardData' = SetState(DataOf(c), dashboardData)
                /\ udLoading' = SetState(FALSE, udLoading)
                /\ calls' = [calls EXCEPT ![c].req = req, ![c].pc = "done",
                                ![c].result = "ok",
                                ![c].promiseToast = PromiseToastAfter(c, "ok")]
                /\ udToast' = IF calls[c].origin = "refresh"
                              THEN PromiseToastAfter(c, "ok") ELSE udToast
           ELSE /\ calls' = [calls EXCEPT ![c].req = req]
                /\ UNCHANGED <<dashboardData, udLoading, udToast>>
    /\ UNCHANGED <<udMounted, udError>>

\* Request w of call c is rejected: Promise.all rejects at once; catch:
\* setError(err.message), toast.error; finally setLoading(false).
RequestRejects(c, w) ==
    /\ calls[c].pc = "fetching"
    /\ calls[c].req[w] = "pending"
    /\ calls' = [calls EXCEPT ![c].req[w] = "err", ![c].pc = "done",
                    ![c].result = "err",
                    ![c].promiseToast = PromiseToastAfter(c, "err")]
    /\ udError' = SetState("err.message", udError)
    /\ udLoading' = SetState(FALSE, udLoading)
    /\ udToast' = IF calls[c].origin = "refresh"
                  THEN PromiseToastAfter(c, "err")
                  ELSE "Failed to load dashboard data"
    /\ UNCHANGED <<udMounted, dashboardData>>

\* The component that uses the hook unmounts (the effect has no cleanup).
UdUnmount ==
    /\ udMounted = "mounted"
    /\ udMounted' = "unmounted"
    /\ UNCHANGED <<dashboardData, udLoading, udError, calls, udToast>>

UdInit ==
    /\ udMounted = "init"
    /\ dashboardData = NoData
    /\ udLoading = TRUE
    /\ udError = Null
    /\ calls = <<>>
    /\ udToast = Null

(***************************************************************************)
(* Specifications.  A browser page runs exactly one of the parts; the      *)
(* variables of the other parts stay at the values of an absent part.      *)
(***************************************************************************)
vars == <<hookVars, jobsVars, cfgVars, dashVars, modalVars, repVars, wizVars, udVars>>

HookAbsent ==
    /\ data = Null /\ loading = TRUE /\ error = Null /\ mounted = "absent"
    /\ endpoint = "/status" /\ deps = "d1" /\ attempts = <<>>

JobsAbsent ==
    /\ page = "absent" /\ hidden = FALSE /\ autoRefreshInterval = NoTimer
    /\ timers = <<>> /\ timerCount = 0 /\ requests = <<>>
    /\ overlayShown = FALSE /\ lastToast = Null /\ currentJobs = "empty"
    /\ jobsGrid = "initial" /\ jobHistory = "initial" /\ schedulerShown = Null

CfgAbsent ==
    /\ cfgPage = "absent" /\ cfgHidden = FALSE /\ cfgTimerOn = FALSE
    /\ configData = EmptyObject /\ configShown = "initial"
    /\ cfgRequests = <<>> /\ cfgOverlay = FALSE /\ cfgToast = Null
    /\ uptimeTimers = 0 /\ exportedFiles = <<>>

DashAbsent ==
    /\ dashPage = "absent" /\ dashHidden = FALSE /\ dashTimerOn = FALSE
    /\ trendChart = FALSE /\ loads = <<>> /\ statusCards = "initial"
    /\ activityList = "initial" /\ chartShown = "initial"
    /\ reportsCount = "initial" /\ lastUpdated = FALSE
    /\ dashOverlay = FALSE /\ dashToast = Null

ModalAbsent ==
    /\ modalPage = "absent" /\ jobList = {} /\ gridJobs = {}
    /\ selectedJobId = Null /\ modalShown = FALSE /\ buttonShown = "pause"
    /\ ops = <<>> /\ modalToast = Null /\ pageLoads = 0

RepAbsent ==
    /\ repPage = "absent" /\ formType = "summary" /\ formDataType = ""
    /\ dataTypeRequired = FALSE /\ submitDisabled = FALSE
    /\ generations = <<>> /\ reloadTimers = 0 /\ loadsInFlight = 0
    /\ loadsIssued = 0 /\ reportsGrid = "initial" /\ repToast = Null

WizAbsent ==
    /\ wizard = "absent" /\ currentStep = 1 /\ selectedPlatforms = <<>>
    /\ wizToast = FALSE /\ navTimers = 0

UdAbsent ==
    /\ udMounted = "absent" /\ dashboardData = NoData /\ udLoading = TRUE
    /\ udError = Null /\ calls = <<>> /\ udToast = Null

notHook == <<jobsVars, cfgVars, dashVars, modalVars, repVars, wizVars, udVars>>

notJobs == <<hookVars, cfgVars, dashVars, modalVars, repVars, wizVars, udVars>>

notCfg == <<hookVars, jobsVars, dashVars, modalVars, repVars, wizVars, udVars>>

notDash == <<hookVars, jobsVars, cfgVars, modalVars, repVars, wizVars, udVars>>

notModal == <<hookVars, jobsVars, cfgVars, dashVars, repVars, wizVars, udVars>>

notRep == <<hookVars, jobsVars, cfgVars, dashVars, modalVars, wizVars, udVars>>

notWiz == <<hookVars, jobsVars, cfgVars, dashVars, modalVars, repVars, udVars>>

notUd == <<hookVars, jobsVars, cfgVars, dashVars, modalVars, repVars, wizVars>>

HookStep ==
    \/ Mount /\ UNCHANGED notHook
    \/ \E ep \in Endpoints, d \in DepVals : Rerender(ep, d) /\ UNCHANGED notHook
    \/ \E a \in 1..Len(attempts), st \in Statuses : FetchResolve(a, st) /\ UNCHANGED notHook
    \/ \E a \in 1..Len(attempts) : FetchReject(a) /\ UNCHANGED notHook
    \/ \E a \in 1..Len(attempts), j \in Payloads : JsonResolve(a, j) /\ UNCHANGED notHook
    \/ \E a \in 1..Len(attempts) : JsonReject(a) /\ UNCHANGED notHook
    \/ Unmount /\ UNCHANGED notHook

JobsStep ==
    \/ DOMContentLoaded /\ UNCHANGED notJobs
    \/ \E id \in DOMAIN timers : TimerTick(id) /\ UNCHANGED notJobs
    \/ VisibilityChange /\ UNCHANGED notJobs
    \/ RefreshJobs /\ UNCHANGED notJobs
    \/ \E i \in 1..Len(requests), st \in Statuses : ReqResolve(i, st) /\ UNCHANGED notJobs
    \/ \E i \in 1..Len(requests) : ReqReject(i) /\ UNCHANGED notJobs
    \/ \E i \in 1..Len(requests), j \in Payloads : ReqJsonResolve(i, j) /\ UNCHANGED notJobs
    \/ \E i \in 1..Len(requests) : ReqJsonReject(i) /\ UNCHANGED notJobs

CfgStep ==
    \/ CfgDOMContentLoaded /\ UNCHANGED notCfg
    \/ CfgTimerFire /\ UNCHANGED notCfg
    \/ CfgVisibilityChange /\ UNCHANGED notCfg
    \/ RefreshConfig /\ UNCHANGED notCfg
    \/ ExportConfig /\ UNCHANGED notCfg
    \/ \E i \in 1..Len(cfgRequests), st \in Statuses : CfgResolve(i, st) /\ UNCHANGED notCfg
    \/ \E i \in 1..Len(cfgRequests) : CfgReject(i) /\ UNCHANGED notCfg
    \/ \E i \in 1..Len(cfgRequests), c \in ConfigBodies : CfgJsonResolve(i, c) /\ UNCHANGED notCfg
    \/ \E i \in 1..Len(cfgRequests) : CfgJsonReject(i) /\ UNCHANGED notCfg

DashStep ==
    \/ DashDOMContentLoaded /\ UNCHANGED notDash
    \/ DashTimerFire /\ UNCHANGED notDash
    \/ DashVisibilityChange /\ UNCHANGED notDash
    \/ RefreshActivity /\ UNCHANGED notDash
    \/ ChangePeriod /\ UNCHANGED notDash
    \/ \E r \in 1..Len(loads), out \in Outcomes : StatusSettles(r, out) /\ UNCHANGED notDash
    \/ \E r \in 1..Len(loads), w \in {"d", "j"}, out \in Outcomes :
           ActivitySettles(r, w, out) /\ UNCHANGED notDash
    \/ \E r \in 1..Len(loads), out \in Outcomes : ChartSettles(r, out) /\ UNCHANGED notDash
    \/ \E r \in 1..Len(loads), out \in Outcomes : ReportsSettles(r, out) /\ UNCHANGED notDash

ModalStep ==
    \/ \E out \in Outcomes, list \in JobLists : PageLoadSettles(out, list) /\ UNCHANGED notModal
    \/ \E jobId \in JobIds : ShowJobDetails(jobId) /\ UNCHANGED notModal
    \/ CloseJobModal /\ UNCHANGED notModal
    \/ \E jobId \in JobIds : PauseJobInline(jobId) /\ UNCHANGED notModal
    \/ ModalButton /\ UNCHANGED notModal
    \/ \E o \in 1..Len(ops), out \in Outcomes : PostSettles(o, out) /\ UNCHANGED notModal
    \/ \E o \in 1..Len(ops), out \in Outcomes, list \in JobLists :
           ReloadSettles(o, out, list) /\ UNCHANGED notModal

RepStep ==
    \/ RepDOMContentLoaded /\ UNCHANGED notRep
    \/ \E t \in ReportTypes : SetReportType(t) /\ UNCHANGED notRep
    \/ \E d \in DataTypes : SetDataType(d) /\ UNCHANGED notRep
    \/ SubmitReport /\ UNCHANGED notRep
    \/ \E i \in 1..Len(generations), out \in Outcomes : GenerationSettles(i, out) /\ UNCHANGED notRep
    \/ ReloadTimerFires /\ UNCHANGED notRep
    \/ RefreshReports /\ UNCHANGED notRep
    \/ \E out \in Outcomes : ReportsLoadSettles(out) /\ UNCHANGED notRep

WizStep ==
    \/ ClickNext /\ UNCHANGED notWiz
    \/ ClickBack /\ UNCHANGED notWiz
    \/ \E platformId \in PlatformIds : ClickPlatform(platformId) /\ UNCHANGED notWiz
    \/ ClickComplete /\ UNCHANGED notWiz
    \/ NavigateFires /\ UNCHANGED notWiz

UdStep ==
    \/ UdMount /\ UNCHANGED notUd
    \/ RefreshData /\ UNCHANGED notUd
    \/ RunSync /\ UNCHANGED notUd
    \/ \E c \in 1..Len(calls), out \in Outcomes : SyncSettles(c, out) /\ UNCHANGED notUd
    \/ \E c \in 1..Len(calls), w \in Resources : RequestFulfils(c, w) /\ UNCHANGED notUd
    \/ \E c \in 1..Len(calls), w \in Resources : RequestRejects(c, w) /\ UNCHANGED notUd
    \/ UdUnmount /\ UNCHANGED notUd

InitHook == HookInit /\ JobsAbsent /\ CfgAbsent /\ DashAbsent /\ ModalAbsent /\ RepAbsent /\ WizAbsent /\ UdAbsent

InitJobs == JobsInit /\ HookAbsent /\ CfgAbsent /\ DashAbsent /\ ModalAbsent /\ RepAbsent /\ WizAbsent /\ UdAbsent

InitCfg == CfgInit /\ HookAbsent /\ JobsAbsent /\ DashAbsent /\ ModalAbsent /\ RepAbsent /\ WizAbsent /\ UdAbsent

InitDash == DashInit /\ HookAbsent /\ JobsAbsent /\ CfgAbsent /\ ModalAbsent /\ RepAbsent /\ WizAbsent /\ UdAbsent

InitModal == ModalInit /\ HookAbsent /\ JobsAbsent /\ CfgAbsent /\ DashAbsent /\ RepAbsent /\ WizAbsent /\ UdAbsent

InitRep == RepInit /\ HookAbsent /\ JobsAbsent /\ CfgAbsent /\ DashAbsent /\ ModalAbsent /\ WizAbsent /\ UdAbsent

InitWiz == WizInit /\ HookAbsent /\ JobsAbsent /\ CfgAbsent /\ DashAbsent /\ ModalAbsent /\ RepAbsent /\ UdAbsent

InitUd == UdInit /\ HookAbsent /\ JobsAbsent /\ CfgAbsent /\ DashAbsent /\ ModalAbsent /\ RepAbsent /\ WizAbsent

SpecHook == InitHook /\ [][HookStep]_vars

SpecJobs == InitJobs /\ [][JobsStep]_vars

SpecCfg == InitCfg /\ [][CfgStep]_vars

SpecDash == InitDash /\ [][DashStep]_vars

SpecModal == InitModal /\ [][ModalStep]_vars

SpecRep == InitRep /\ [][RepStep]_vars

SpecWiz == InitWiz /\ [][WizStep]_vars

SpecUd == InitUd /\ [][UdStep]_vars

Init == InitHook \/ InitJobs \/ InitCfg \/ InitDash \/ InitModal \/ InitRep \/ InitWiz \/ InitUd

Next == HookStep \/ JobsStep \/ CfgStep \/ DashStep \/ ModalStep \/ RepStep \/ WizStep \/ UdStep

Spec == Init /\ [][Next]_vars

(***************************************************************************)
(* Properties of useApi                                                    *)
(***************************************************************************)
\* The promise chain of attempt a settles in this step.
SettlesNow(a) == attempts[a].pc # "done" /\ attempts'[a].pc = "done"

LastAttempt == attempts[Len(attempts)]

\* A step in which the response of a superseded attempt arrives writes none
\* of data, error, loading.
C1_SupersededStep ==
    \A a \in 1..Len(attempts) :
        (a < Len(attempts) /\ SettlesNow(a)) =>
            /\ UNCHANGED <<data, error, loading>>
            /\ ~attempts'[a].wrote

\* Once the attempt issued last has settled (component still mounted), the
\* state is that attempt's result.
C1_FinalIsLast ==
    (Len(attempts) >= 2 /\ LastAttempt.pc = "done" /\ ~LastAttempt.cancelled) =>
        /\ loading = FALSE
        /\ LastAttempt.result = "ok" => data = LastAttempt.payload
        /\ LastAttempt.result = "err" => error = LastAttempt.msg

\* C1: supersession in useApi.  When the deps change while attempt A1 is in
\* flight and attempt A2 is issued, then whatever the arrival order of the two
\* responses, A1's result is never written to data, error or loading, and the
\* final state is A2's result.
C1_Supersession == [][C1_SupersededStep]_vars /\ []C1_FinalIsLast

\* A1's response arrived after A2's, with a different payload, and was dropped.
C1_Witness ==
    /\ Len(attempts) = 2
    /\ attempts[1].doneAt = 2 /\ attempts[2].doneAt = 1
    /\ attempts[1].result = "ok" /\ attempts[2].result = "ok"
    /\ attempts[1].payload # attempts[2].payload
    /\ ~attempts[1].wrote
    /\ data = attempts[2].payload

\* C2: disposal silence.  After the effect cleanup has run because the
\* component unmounted, no step changes data, error or loading, also not the
\* step in which a call issued before the cleanup resolves or rejects.
C2_DisposalSilence ==
    [][mounted = "unmounted" => UNCHANGED <<data, error, loading>>]_vars

\* The only attempt settled after the unmount, and nothing was written.
C2_Witness ==
    /\ mounted = "unmounted"
    /\ Len(attempts) = 1
    /\ attempts[1].pc = "done"
    /\ ~attempts[1].wrote
    /\ loading = TRUE /\ data = Null /\ error = Null

\* The variant the triple denotes to a consumer: Loading while loading, else
\* Failure when an error is reported, else Success when there is data.
FetchState ==
    IF loading THEN "Loading"
    ELSE IF error # Null THEN "Failure"
    ELSE IF data # Null THEN "Success"
    ELSE "None"

\* C9 (as claimed): in every state of a mounted useApi the triple
\* (loading, data, error) denotes exactly one of Loading, Success, Failure, and
\* when not loading it reflects the latest completed attempt only: after a
\* later attempt has succeeded, no error of an earlier attempt is reported.
C9_ExactlyOneState ==
    mounted = "mounted" =>
        /\ FetchState # "None"
        /\ (~loading /\ LastAttempt.result = "ok")
               => (FetchState = "Success" /\ data = LastAttempt.payload)
        /\ (~loading /\ LastAttempt.result = "err")
               => (FetchState = "Failure" /\ error = LastAttempt.msg)

\* The effect has just run in this step: one more attempt, for the endpoint of
\* the new render, and the state is Loading.
IssuesNewCall ==
    /\ Len(attempts') = Len(attempts) + 1
    /\ attempts'[Len(attempts')].endpoint = endpoint'
    /\ attempts'[Len(attempts')].pc = "fetching"
    /\ ~attempts'[Len(attempts')].cancelled
    /\ loading' = TRUE

\* C10 (as claimed): on subscribe and whenever the descriptor (the endpoint)
\* changes by value, the hook sets Loading and issues a call for the new
\* descriptor.
C10_RefetchOnDescriptorChange ==
    [][(mounted' = "mounted" /\ (mounted = "init" \/ endpoint' # endpoint))
          => IssuesNewCall]_vars

\* C10 (amended): the hook sets Loading and issues a call for the current
\* endpoint on mount and whenever the deps array changes; a change of the
\* endpoint with unchanged deps issues no call and leaves loading as it is.
C10_RefetchOnDepsChange ==
    [][/\ (mounted' = "mounted" /\ (mounted = "init" \/ deps' # deps))
             => IssuesNewCall
       /\ (mounted = "mounted" /\ deps' = deps /\ endpoint' # endpoint)
             => UNCHANGED <<attempts, loading, data, error>>]_vars

\* The deps changed while the first call was in flight: a second call is out,
\* for the endpoint of the new render.
C10_Witness ==
    /\ mounted = "mounted"
    /\ Len(attempts) = 2
    /\ attempts[1].cancelled /\ attempts[1].pc = "fetching"
    /\ attempts[2].pc = "fetching" /\ attempts[2].endpoint = endpoint
    /\ attempts[2].endpoint # attempts[1].endpoint
    /\ loading = TRUE

(***************************************************************************)
(* Properties of the jobs page                                             *)
(***************************************************************************)
\* The requests issued in this step.
IssuedNow == {i \in 1..Len(requests') : i > Len(requests)}

\* The calls of the polled resource kind that polling has outstanding: those
\* issued by the initial load and by the timer.
PollsInFlight(kind) ==
    {i \in InFlight(kind) : requests[i].origin \in {"init", "auto"}}

\* C3 (as claimed): a refresh attempt is started only after the previous one
\* has completed, so polling has at most one call per polled resource
\* outstanding at any moment.
C3_NoOverlappingPolls ==
    \A kind \in {"jobs", "status"} : Cardinality(PollsInFlight(kind)) <= 1

\* The interval of timer id elapses in this step.
Elapses(id) ==
    /\ id \in DOMAIN timers /\ timers[id] = 1
    /\ id \in DOMAIN timers' /\ timers'[id] = IntervalTicks
    /\ hidden' = hidden

\* C3 (amended): a refresh attempt is started every time the polling interval
\* elapses, counted from the previous expiry (setInterval), whether or not an
\* earlier call has completed: each expiry issues one /jobs and one /status
\* call, also while calls of the same resources are outstanding.
C3_PollsOnEveryExpiry ==
    [][\A id \in DOMAIN timers :
          Elapses(id) =>
              /\ Len(requests') = Len(requests) + 2
              /\ \A i \in IssuedNow : requests'[i].origin = "auto"
              /\ {requests'[i].kind : i \in IssuedNow} = {"jobs", "status"}]_vars

\* The timer fired while the initial loads were still in flight.
C3_Witness ==
    /\ Len(requests) = 4
    /\ \A i \in 1..4 : requests[i].pc = "fetching"
    /\ requests[1].origin = "init" /\ requests[3].origin = "auto"
    /\ Cardinality(PollsInFlight("jobs")) = 2

\* The loadJobs calls, in issue order.
JobsLoads == {i \in 1..Len(requests) : requests[i].kind = "jobs"}

LastJobsLoad == CHOOSE i \in JobsLoads : \A k \in JobsLoads : k <= i

\* C4 (as claimed): when loads of the same resource overlap, then for every
\* arrival order of the responses currentJobs finally (all loads completed)
\* holds the response of the load that was issued last.
C4_LastIssuedWins ==
    (/\ JobsLoads # {}
     /\ \A i \in JobsLoads : requests[i].pc = "done"
     /\ requests[LastJobsLoad].result = "ok")
        => currentJobs = requests[LastJobsLoad].payload

\* C5 (as claimed): when the page goes from hidden to visible, one refresh
\* attempt is performed at that transition, without waiting for the interval.
C5_RefreshOnResume ==
    [][(page = "ready" /\ hidden /\ ~hidden') => IssuedNow # {}]_vars

\* C5 (amended): when the page goes from hidden to visible, no refresh attempt
\* is performed at the transition; the auto-refresh timer is started anew with
\* a full polling interval to run, and the first refresh comes when it elapses.
C5_TimerRestartedOnResume ==
    [][(page = "ready" /\ hidden /\ ~hidden') =>
          /\ requests' = requests
          /\ autoRefreshInterval' \in DOMAIN timers'
          /\ autoRefreshInterval' \notin DOMAIN timers
          /\ timers'[autoRefreshInterval'] = IntervalTicks]_vars

\* The page was hidden and shown again: a new timer runs with the whole
\* interval ahead and only the two initial loads have ever been issued.
C5_Witness ==
    /\ page = "ready" /\ ~hidden
    /\ timerCount = 2 /\ autoRefreshInterval = 2
    /\ timers[2] = IntervalTicks
    /\ Len(requests) = 2

\* C6 (as claimed): while the document is hidden no auto-refresh attempt is
\* started, for every sequence of visibility changes and also for a page that
\* is hidden when it is loaded.
C6_NoPollWhileHidden ==
    [][hidden => \A i \in IssuedNow : requests'[i].origin # "auto"]_vars

(***************************************************************************)
(* Properties of a fetch (useApi and apiRequest)                           *)
(***************************************************************************)
Is2xx(st) == st \in 200..299

\* C7: for every response whose status is outside 2xx the fetch ends in
\* failure carrying the status (useApi: the Error message is the status;
\* apiRequest: "HTTP <status>"), and the body is never JSON-decoded.
C7_HttpFailureMapping ==
    /\ \A a \in 1..Len(attempts) :
          (attempts[a].status # 0 /\ ~Is2xx(attempts[a].status)) =>
              /\ attempts[a].pc = "done" /\ attempts[a].result = "err"
              /\ attempts[a].msg = ToString(attempts[a].status)
              /\ ~attempts[a].jsonCalled
              /\ (a = Len(attempts) /\ attempts[a].wrote)
                     => (error = attempts[a].msg /\ ~loading)
    /\ \A i \in 1..Len(requests) :
          (requests[i].status # 0 /\ ~Is2xx(requests[i].status)) =>
              /\ requests[i].pc = "done" /\ requests[i].result = "err"
              /\ requests[i].msg = "HTTP " \o ToString(requests[i].status)
              /\ ~requests[i].jsonCalled

\* A 500 arrived for the current attempt of the hook and is what error reports.
C7_Witness ==
    /\ mounted = "mounted"
    /\ LastAttempt.status = 500 /\ LastAttempt.wrote
    /\ error = "500" /\ ~loading

\* The record of a settled fetch is consistent: Success only with a 2xx status
\* and a decoded body, Failure without a payload.
OutcomeOk(r) ==
    /\ r.pc = "done" => r.result \in {"ok", "err"}
    /\ r.result = "ok" => (Is2xx(r.status) /\ r.jsonCalled /\ r.payload \in Payloads)
    /\ r.result = "err" => (r.payload = Null /\ r.msg # Null)

\* A useApi attempt that settles while not cancelled makes exactly one
\* transition: Success writes data, Failure writes error and leaves data.
C8_HookStep ==
    \A a \in 1..Len(attempts) :
        (SettlesNow(a) /\ ~attempts[a].cancelled) =>
            /\ loading' = FALSE
            /\ attempts'[a].result = "ok" =>
                   (data' = attempts'[a].payload /\ error' = error)
            /\ attempts'[a].result = "err" =>
                   (error' = attempts'[a].msg /\ data' = data)

\* An apiRequest that ends in failure leaves the data of the page untouched.
C8_PageStep ==
    \A i \in 1..Len(requests) :
        (requests[i].pc # "done" /\ requests'[i].pc = "done") =>
            /\ requests'[i].result = "err" =>
                   UNCHANGED <<currentJobs, schedulerShown>>
            /\ (requests'[i].result = "ok" /\ requests[i].kind = "jobs") =>
                   currentJobs' = requests'[i].payload

\* C8: every non-superseded fetch attempt ends in exactly one outcome: Success
\* only when the status is 2xx and the body decodes; a body that fails to
\* decode and a network-level failure both end in Failure, and the data of the
\* fetch state is not updated by that attempt.
C8_OneOutcome ==
    /\ [](/\ \A a \in 1..Len(attempts) : OutcomeOk(attempts[a])
          /\ \A i \in 1..Len(requests) : OutcomeOk(requests[i]))
    /\ [][C8_HookStep /\ C8_PageStep]_vars

\* After a success, the next attempt got a 2xx response whose body did not
\* decode: it ended in Failure and the earlier data is still there.
C8_Witness ==
    /\ Len(attempts) = 2
    /\ attempts[1].result = "ok" /\ attempts[1].wrote
    /\ attempts[2].msg = "SyntaxError" /\ attempts[2].wrote
    /\ data = attempts[1].payload /\ error = "SyntaxError" /\ ~loading

\* The hook rests in Failure: its latest attempt failed and wrote its error.
FailedState ==
    /\ Len(attempts) > 0
    /\ LastAttempt.result = "err" /\ LastAttempt.wrote
    /\ error = LastAttempt.msg /\ ~loading

\* C12: no automatic retry for a one-shot fetch.  A network call is issued
\* only by the effect (on mount or when the deps change); after a failed
\* attempt the hook issues no call by itself and stays in the failure state
\* (error set, loading false) for as long as the deps do not change.
C12_NoAutomaticRetry ==
    [][/\ Len(attempts') > Len(attempts) => (mounted = "init" \/ deps' # deps)
       /\ (FailedState /\ deps' = deps) =>
              (FailedState' /\ Len(attempts') = Len(attempts))]_vars

\* The only attempt failed; the component was then re-rendered with another
\* endpoint and the same deps, and still shows the failure with no new call.
C12_Witness ==
    /\ mounted = "mounted"
    /\ Len(attempts) = 1
    /\ FailedState
    /\ endpoint # attempts[1].endpoint

(***************************************************************************)
(* Properties of the auto-refresh timer and of disposal                    *)
(***************************************************************************)
\* C13: idempotent disposal.  In every state, also when nothing was ever
\* started, running the disposer twice (the useApi effect cleanup;
\* stopAutoRefresh) leaves the state that running it once leaves, and neither
\* run raises an error.
C13_IdempotentDisposal ==
    LET once == StopResult(autoRefreshInterval, timers)
        twice == StopResult(once.handle, once.timers)
    IN  /\ ~once.threw /\ ~twice.threw
        /\ twice.handle = once.handle /\ twice.timers = once.timers
        /\ Cleanup(Cleanup(attempts)) = Cleanup(attempts)

\* stopAutoRefresh has run (the page went hidden) and the timer it cleared is
\* gone: a second run finds nothing to clear.
C13_Witness ==
    /\ page = "ready" /\ hidden
    /\ timerCount >= 1
    /\ autoRefreshInterval = NoTimer /\ DOMAIN timers = {}

\* C14: disposal stops polling.  After stopAutoRefresh() has returned and
\* until startAutoRefresh() is called again, no interval timer is active and
\* the timer invokes the refresh callback no more.
C14_StopStopsPolling ==
    /\ []((page = "ready" /\ autoRefreshInterval = NoTimer) => DOMAIN timers = {})
    /\ [][(page = "ready" /\ autoRefreshInterval = NoTimer
              /\ autoRefreshInterval' = NoTimer)
             => \A i \in IssuedNow : requests'[i].origin # "auto"]_vars

\* The timer had fired once, then the page went hidden: polling is stopped
\* with the /jobs call of that refresh on record.
C14_Witness ==
    /\ page = "ready" /\ hidden
    /\ autoRefreshInterval = NoTimer /\ DOMAIN timers = {}
    /\ Len(requests) = 4 /\ requests[3].origin = "auto"

\* A load ends in failure in this step.
FailsNow ==
    \E i \in 1..Len(requests) :
        requests[i].pc # "done" /\ requests'[i].pc = "done"
            /\ requests'[i].result = "err"

\* C15: polling survives failure.  While the page is visible and auto-refresh
\* has not been stopped the interval timer stays active, a failed load leaves
\* it as it is, and its next expiry invokes the refresh callback again, also
\* when earlier loads have failed.
C15_PollingSurvivesFailure ==
    /\ []((page = "ready" /\ ~hidden) => autoRefreshInterval \in DOMAIN timers)
    /\ [][/\ FailsNow => UNCHANGED <<timers, autoRefreshInterval>>
          /\ \A id \in DOMAIN timers :
                (Elapses(id) /\ \E i \in 1..Len(requests) : requests[i].result = "err")
                    => \E i \in IssuedNow : requests'[i].origin = "auto"]_vars

\* The initial loadJobs failed, and the timer has invoked the callback since.
C15_Witness ==
    /\ page = "ready" /\ ~hidden
    /\ requests[1].result = "err" /\ jobsGrid = "failed"
    /\ Len(requests) = 4 /\ requests[3].origin = "auto"
    /\ requests[3].pc = "fetching"
    /\ autoRefreshInterval \in DOMAIN timers

\* C17 (as claimed): whenever at least one apiRequest is in flight the loading
\* overlay is shown, for every interleaving of concurrent requests; it is
\* hidden only when no request is in flight.
C17_OverlayWhileInFlight ==
    (InFlight("jobs") \cup InFlight("status") # {}) <=> overlayShown

\* C18: status decode.  When the response of the current attempt is 2xx and
\* its body is valid JSON, the Success payload is the decoded body unchanged:
\* data is the decoded body, and database.total_records and scheduler.running
\* read from data are the values that were sent.
C18_StatusDecode ==
    [][\A a \in 1..Len(attempts) :
          (SettlesNow(a) /\ ~attempts[a].cancelled /\ Is2xx(attempts'[a].status)
              /\ attempts'[a].result = "ok")
          => \E j \in Payloads :
                /\ attempts'[a].payload = j
                /\ data' = j /\ ~loading' /\ StatusBody(data') = StatusBody(j)
                /\ j = "p1" => (RenderedTotalRecords' = 42
                                   /\ RenderedScheduler' = "Running")]_vars

\* The status body with total_records 42 and running true was received.
C18_Witness ==
    /\ mounted = "mounted" /\ Len(attempts) = 1
    /\ attempts[1].result = "ok" /\ attempts[1].payload = "p1"
    /\ data = "p1" /\ ~loading
    /\ RenderedTotalRecords = 42 /\ RenderedScheduler = "Running"

(***************************************************************************)
(* Properties of the page loads and of the configuration export            *)
(***************************************************************************)
\* The /jobs requests, and the /config requests, that fail in this step.
JobsFailNow ==
    {i \in 1..Len(requests) :
        requests[i].kind = "jobs" /\ requests[i].pc # "done"
            /\ requests'[i].pc = "done" /\ requests'[i].result = "err"}

CfgFailNow ==
    {i \in 1..Len(cfgRequests) :
        cfgRequests[i].pc # "done" /\ cfgRequests'[i].pc = "done"
            /\ cfgRequests'[i].load = "failed"}

C20_ExportRemovesSensitive ==
    /\ \A k \in 1..Len(exportedFiles) :
           DOMAIN exportedFiles[k].api = {"configured"}
    /\ \A k \in 1..Len(exportedFiles) : DOMAIN exportedFiles[k] # {}

\* The section loads of l were started in the order of loadDashboardData.
StartedInOrder(l) ==
    \E n \in 0..4 : l.sections = SubSeq(<<"status", "activity", "chart", "reports">>, 1, n)

\* C19 (as claimed): graceful degradation of the dashboard load.  Every
\* loadDashboardData call starts its sections in the order status, recent
\* activity, trend chart, reports count, and when it has ended all four were
\* started, whichever of them failed.
C19_GracefulDegradation ==
    \A r \in 1..Len(loads) :
        loads[r].origin \in {"init", "auto"} =>
            /\ StartedInOrder(loads[r])
            /\ loads[r].pc = "done" =>
                   loads[r].sections = <<"status", "activity", "chart", "reports">>

(***************************************************************************)
(* Properties of the shared timer handle                                   *)
(***************************************************************************)
\* startAutoRefresh runs in this step (each call creates one timer).
StartsNow == timerCount' = timerCount + 1

C21_SingleAutoRefreshTimer ==
    /\ Cardinality(DOMAIN timers) <= 1
    /\ \A id \in 1..timerCount :
           id # autoRefreshInterval => id \notin DOMAIN timers

\* Auto-refresh was started twice and stopped after each start.
C21_Witness ==
    /\ page = "ready" /\ hidden
    /\ timerCount = 2
    /\ DOMAIN timers = {} /\ autoRefreshInterval = NoTimer

\* C29 (as claimed): bounded uptime timers on the configuration page.  After
\* any number of automatic or manual refreshes at most one periodic
\* uptime-update timer is active.
C29_OneUptimeTimer == uptimeTimers <= 1

(***************************************************************************)
(* Properties of pause / resume                                            *)
(***************************************************************************)
\* C27: pauseResumeJob ordering.  The modal's buttons are switched by a call
\* only in the step in which the reload it issued after a successful POST
\* completes, and only if selectedJobId equals its job id at that moment; a
\* failed POST issues no reload and leaves currentJobs, selectedJobId and the
\* buttons unchanged.
C27_PauseResumeOrdering ==
    [][/\ buttonShown' # buttonShown
            => \/ \E o \in 1..Len(ops) : ops'[o].switched /\ ~ops[o].switched
               \/ modalShown' /\ ~modalShown
       /\ \A o \in 1..Len(ops) :
          /\ (ops'[o].switched /\ ~ops[o].switched)
                => /\ ops[o].pc = "reloading" /\ ops[o].result = "ok"
                   /\ ops'[o].pc = "done"
                   /\ selectedJobId = ops[o].jobId /\ modalShown
                   /\ buttonShown' = IF ops[o].action = "pause"
                                     THEN "resume" ELSE "pause"
          /\ (ops'[o].pc = "done" /\ ops[o].pc = "reloading" /\ ~ops'[o].switched)
                => (selectedJobId # ops[o].jobId /\ buttonShown' = buttonShown)
          /\ (ops[o].pc = "posting" /\ ops'[o].result = "err")
                => /\ ops'[o].pc = "done"
                   /\ UNCHANGED <<jobList, gridJobs, selectedJobId, buttonShown>>]_vars

\* A pause from the modal was posted, the list was reloaded and, the modal
\* still showing the job, Resume is displayed; another call was dropped
\* because the modal had been closed.
C27_Witness ==
    /\ Len(ops) = 2
    /\ ops[1].pc = "done" /\ ops[1].result = "ok" /\ ~ops[1].switched
    /\ ops[2].pc = "done" /\ ops[2].switched /\ ops[2].action = "pause"
    /\ selectedJobId = ops[2].jobId /\ buttonShown = "resume"

(***************************************************************************)
(* Properties of the report form                                           *)
(***************************************************************************)
\* C28: report generation button.  For every generation request that is sent
\* the submit button is disabled when the request is issued and stays
\* disabled until it completes, and it is enabled again in the step in which
\* the request completes, whether it succeeded or failed; the form is reset
\* only on success.
C28_GenerateButton ==
    /\ [](\A i \in 1..Len(generations) :
             /\ generations[i].disabledAtSend
             /\ generations[i].pc = "posting" => submitDisabled)
    /\ [][\A i \in 1..Len(generations) :
             (generations[i].pc = "posting" /\ generations'[i].pc = "done")
                => /\ ~submitDisabled'
                   /\ generations'[i].result = "ok"
                         => (formType' = "summary" /\ formDataType' = "")
                   /\ generations'[i].result = "err"
                         => UNCHANGED <<formType, formDataType>>]_vars

\* A trend report request failed: the button is enabled again and the form
\* still holds what the user entered.
C28_Witness ==
    /\ Len(generations) = 2
    /\ generations[1].result = "ok"
    /\ generations[2].pc = "done" /\ generations[2].result = "err"
    /\ generations[2].type = "trend"
    /\ ~submitDisabled
    /\ formType = "trend" /\ formDataType = "sales"

(***************************************************************************)
(* Properties of the onboarding wizard                                     *)
(***************************************************************************)
\* The ids a list holds.
Members(list) == {list[k] : k \in 1..Len(list)}

\* C22: wizard step bounds.  currentStep is always 1, 2 or 3; a step of the
\* wizard that changes it changes it by exactly one and leaves
\* selectedPlatforms alone; at step 3 nextStep and at step 1 prevStep return
\* the step unchanged.
C22_StepBounds ==
    /\ [](/\ currentStep \in {1, 2, 3}
          /\ nextStep(currentStep) = (IF currentStep = 3 THEN 3 ELSE currentStep + 1)
          /\ prevStep(currentStep) = (IF currentStep = 1 THEN 1 ELSE currentStep - 1))
    /\ [][currentStep' # currentStep
             => /\ currentStep' \in {currentStep + 1, currentStep - 1}
                /\ selectedPlatforms' = selectedPlatforms]_vars

\* The wizard went forward to step 3 and back to step 2 with its selection.
C22_Witness ==
    /\ wizard = "shown" /\ currentStep = 2
    /\ wizToast /\ Len(selectedPlatforms) = 2

\* C23: completion needs a platform.  Whenever the wizard shows step 3 at
\* least one platform is selected.
C23_CompletionNeedsPlatform ==
    (wizard = "shown" /\ currentStep = 3) => Len(selectedPlatforms) >= 1

\* Step 3 is shown with one platform selected, and Go to Dashboard was
\* clicked.
C23_Witness ==
    /\ wizard = "shown" /\ currentStep = 3
    /\ wizToast /\ navTimers = 1
    /\ selectedPlatforms = <<"amazon">>

\* C24: togglePlatform keeps selectedPlatforms a set.  The list never holds
\* an id twice; a toggle of an unselected id adds exactly that id, a toggle of
\* a selected id removes exactly that id, and two toggles of one id restore
\* the membership.
C24_ToggleKeepsSet ==
    /\ [](/\ Cardinality(Members(selectedPlatforms)) = Len(selectedPlatforms)
          /\ \A id \in PlatformIds :
                Members(togglePlatform(togglePlatform(selectedPlatforms, id), id))
                    = Members(selectedPlatforms))
    /\ [][selectedPlatforms' # selectedPlatforms
             => \E id \in PlatformIds :
                   \/ /\ id \notin Members(selectedPlatforms)
                      /\ Members(selectedPlatforms') = Members(selectedPlatforms) \cup {id}
                      /\ Len(selectedPlatforms') = Len(selectedPlatforms) + 1
                   \/ /\ id \in Members(selectedPlatforms)
                      /\ Members(selectedPlatforms') = Members(selectedPlatforms) \ {id}
                      /\ Len(selectedPlatforms') = Len(selectedPlatforms) - 1]_vars

\* Step 3 had been reached with a selection, and back at step 2 every
\* selected platform was toggled off again.
C24_Witness ==
    /\ wizard = "shown" /\ currentStep = 2
    /\ wizToast
    /\ selectedPlatforms = <<>>

(***************************************************************************)
(* Properties of useDashboard                                              *)
(***************************************************************************)
\* The fetchData of call c finishes in this step.
FetchEndsNow(c) == calls[c].pc = "fetching" /\ calls'[c].pc = "done"

\* C25: fetchData is all-or-nothing.  While the hook is mounted,
\* dashboardData is replaced only in a step in which the third of the three
\* requests of a call is fulfilled; a call that fails leaves dashboardData
\* unchanged and sets error; in both outcomes loading is false when the call
\* has finished.
C25_FetchAllOrNothing ==
    [][udMounted = "mounted" =>
         /\ dashboardData' # dashboardData
               => \E c \in 1..Len(calls) :
                     /\ FetchEndsNow(c) /\ calls'[c].result = "ok"
                     /\ \A w \in Resources : calls'[c].req[w] = "ok"
                     /\ dashboardData' = DataOf(c)
         /\ \A c \in 1..Len(calls) :
               /\ (FetchEndsNow(c) /\ calls'[c].result = "err")
                     => (dashboardData' = dashboardData /\ udError' # Null)
               /\ FetchEndsNow(c) => ~udLoading']_vars

\* The first call loaded the data; in the second call one request was
\* fulfilled and another rejected: the data of the first call is kept.
C25_Witness ==
    /\ udMounted = "mounted" /\ Len(calls) = 2
    /\ calls[1].result = "ok"
    /\ calls[2].pc = "done" /\ calls[2].result = "err"
    /\ calls[2].req["status"] = "ok" /\ calls[2].req["revenue"] = "err"
    /\ dashboardData = DataOf(1) /\ udError # Null /\ ~udLoading

\* C26 (as claimed): refreshData reports the real outcome.  When the fetch
\* started by refreshData has failed the toast of toast.promise reads
\* "Failed to refresh data", and it reads "Dashboard updated!" only when the
\* fetch succeeded.
C26_RefreshReportsOutcome ==
    \A c \in 1..Len(calls) :
        (calls[c].origin = "refresh" /\ calls[c].pc = "done")
            => /\ calls[c].result = "err"
                    => calls[c].promiseToast = "Failed to refresh data"
               /\ calls[c].promiseToast = "Dashboard updated!"
                    => calls[c].result = "ok"

====
